---- MODULE Spec2Model ----
(***************************************************************************)
(* Dependency Impact Graph Engine of server/api/pythonApi.py:              *)
(* find_critical_path, calculate_cascade_impact and the command-line       *)
(* entry point main.  One run of the state machine is one process          *)
(* invocation: main dispatches to a handler, the handler builds a          *)
(* networkx DiGraph from its decoded arguments, find_critical_path         *)
(* repairs cycles one loop iteration at a time, and main prints the        *)
(* handler's result.                                                       *)
(***************************************************************************)
EXTENDS Integers, Sequences, FiniteSets, TLC

VARIABLES
  pc,             \* "idle", "resolve" (head of the while loop), "exited", "raised"
  cmd,            \* sys.argv[1]
  argv,           \* sys.argv[2:], one tag per argument
  nodes,          \* the decoded node list
  edges,          \* the decoded edge list
  src,            \* work_item_id ("other": a decoded value that is no node id)
  use_pinn,       \* options.get('usePINN', False)
  PINN_AVAILABLE, \* set when the module is imported
  G,              \* the DiGraph of the request
  iters,          \* iterations of the while loop so far
  result,         \* the handler's return value
  stdout,         \* result objects printed by main
  opt_out_users,  \* GDPRCompliantProcessor.opt_out_users
  work_items,     \* the work item list a caller holds
  dependencies,   \* the dependency list a caller holds
  processed       \* what process_dataset returned for these lists

\* The state of the command-line handlers.
hvars == <<pc, cmd, argv, nodes, edges, src, use_pinn, PINN_AVAILABLE, G, iters,
           result, stdout>>

\* The state of a GDPRCompliantProcessor and of its caller.
gvars == <<opt_out_users, work_items, dependencies, processed>>

vars == <<pc, cmd, argv, nodes, edges, src, use_pinn, PINN_AVAILABLE, G, iters,
          result, stdout, opt_out_users, work_items, dependencies, processed>>

(***************************************************************************)
(* Bounds and input alphabets                                              *)
(***************************************************************************)
\* A request carries at most MaxInput items: node ids plus edges.
MaxInput == 2

\* Node identifiers are opaque; three of them give self-loops, 2-cycles,
\* 3-cycles, chains and branching.
NodeIds == {"A", "B", "C"}

\* The loop-iteration counter saturates one above the largest edge count.
IterCap == MaxInput + 1

(***************************************************************************)
(* Floating point weights: finite numbers, +infinity (json.loads accepts   *)
(* Infinity and 1e999) and NaN (only as the product inf * 0).              *)
(***************************************************************************)
Num(n) == [k |-> "num", v |-> n]
Inf == [k |-> "inf", v |-> 0]
NaN == [k |-> "nan", v |-> 0]

\* Python float addition.
Add(a, b) ==
  IF a.k = "nan" \/ b.k = "nan" THEN NaN
  ELSE IF a.k = "inf" \/ b.k = "inf" THEN Inf
  ELSE Num(a.v + b.v)

\* Python a < b on floats.
Less(a, b) ==
  /\ a.k # "nan"
  /\ b.k # "nan"
  /\ a.k = "num"
  /\ (b.k = "inf" \/ a.v < b.v)

\* A weight that is no number: a JSON string, null, list or object.
\* Comparing it with a float or adding it to a number raises TypeError.
NotANumber == [k |-> "other", v |-> 0]

Numeric(w) == w.k \in {"num", "inf", "nan"}

\* Weights a request may carry.
Weights == {Num(-1), Num(1), Inf}

\* An edge of the request: {source, target, weight, riskScore?}.  The
\* optional riskScore is the empty set when the key is absent and holds its
\* one value otherwise, Num(r) or a value that is no number; absent is the
\* set of keys among source, target, weight the dict lacks.
EdgeOf(u, v, w) ==
  [source |-> u, target |-> v, weight |-> w, riskScore |-> {}, absent |-> {}]

EdgeInputs == {EdgeOf(u, v, w) : u \in NodeIds, v \in NodeIds, w \in Weights}

SeqsUpTo(S, n) == UNION {[1..k -> S] : k \in 0..n}

Range(s) == {s[i] : i \in 1..Len(s)}

(***************************************************************************)
(* networkx DiGraph: nodes in insertion order, successors of each node in  *)
(* insertion order, one weight per ordered pair.                           *)
(***************************************************************************)
NoWeights == [p \in {} |-> Num(0)]

EmptyGraph == [nodes |-> <<>>, adj |-> [n \in NodeIds |-> <<>>], w |-> NoWeights]

HasEdge(g, u, v) == <<u, v>> \in DOMAIN g.w

EdgeSet(g) == DOMAIN g.w

NodeSet(g) == Range(g.nodes)

\* G.add_node(n): a node already present keeps its position.
AddNode(g, n) ==
  IF n \in Range(g.nodes) THEN g ELSE [g EXCEPT !.nodes = Append(@, n)]

\* add_edge that does not create missing endpoints.
AddEdgeNoNodes(g, u, v, w) ==
  [g EXCEPT
     !.adj = [@ EXCEPT ![u] = IF HasEdge(g, u, v) THEN @ ELSE Append(@, v)],
     !.w = [p \in DOMAIN g.w \cup {<<u, v>>} |->
              IF p = <<u, v>> THEN w ELSE g.w[p]]]

\* add_edge that keeps the weight of an edge already present.
AddEdgeKeepFirst(g, u, v, w) ==
  LET g2 == AddNode(AddNode(g, u), v)
  IN [g2 EXCEPT
        !.adj = [@ EXCEPT ![u] = IF HasEdge(g, u, v) THEN @ ELSE Append(@, v)],
        !.w = [p \in DOMAIN g.w \cup {<<u, v>>} |->
                 IF p \in DOMAIN g.w THEN g.w[p] ELSE w]]

\* G.add_edge(u, v, weight=w): adds u then v when new; an existing (u, v)
\* keeps its place among u's successors and has its weight overwritten.
AddEdge(g, u, v, w) ==
  LET g2 == AddNode(AddNode(g, u), v)
  IN [g2 EXCEPT
        !.adj = [@ EXCEPT ![u] = IF HasEdge(g, u, v) THEN @ ELSE Append(@, v)],
        !.w = [p \in DOMAIN g.w \cup {<<u, v>>} |->
                 IF p = <<u, v>> THEN w ELSE g.w[p]]]

\* remove_node(u) in place of remove_edge: u goes with all its out-edges.
RemoveEdgeAndSource(g, u, v) ==
  [g EXCEPT
     !.nodes = SelectSeq(@, LAMBDA x : x # u),
     !.adj = [@ EXCEPT ![u] = <<>>],
     !.w = [p \in {q \in DOMAIN g.w : q[1] # u} |-> g.w[p]]]

\* G.remove_edge(u, v).
RemoveEdge(g, u, v) ==
  [g EXCEPT
     !.adj = [@ EXCEPT ![u] = SelectSeq(@, LAMBDA x : x # v)],
     !.w = [p \in DOMAIN g.w \ {<<u, v>>} |-> g.w[p]]]

RECURSIVE AddNodes(_, _)
AddNodes(g, ns) ==
  IF ns = <<>> THEN g ELSE AddNodes(AddNode(g, Head(ns)), Tail(ns))

RECURSIVE AddEdges(_, _)
AddEdges(g, es) ==
  IF es = <<>> THEN g
  ELSE AddEdges(AddEdge(g, Head(es).source, Head(es).target, Head(es).weight),
                Tail(es))

\* G = nx.DiGraph(); add the listed nodes, then the edges.
BuildGraph(ns, es) == AddEdges(AddNodes(EmptyGraph, ns), es)

(***************************************************************************)
(* Cycle detection                                                         *)
(***************************************************************************)
\* Every sequence of distinct node ids.
DistinctSeqs ==
  {s \in UNION {[1..k -> NodeIds] : k \in 1..Cardinality(NodeIds)} :
     \A i, j \in 1..Len(s) : i # j => s[i] # s[j]}

\* zip(cycle, cycle[1:] + [cycle[0]]): the cycle's edges in order.
CycleEdges(cyc) ==
  [i \in 1..Len(cyc) |-> <<cyc[i], cyc[(i % Len(cyc)) + 1]>>]

\* simple_cycles without the self-loops (Johnson's algorithm proper).
SimpleCyclesNoSelfLoops(g) ==
  {c \in DistinctSeqs :
     /\ Len(c) >= 2
     /\ \A i \in 1..Len(c) : HasEdge(g, CycleEdges(c)[i][1], CycleEdges(c)[i][2])}

\* simple_cycles on the graph read as undirected.
SimpleCyclesUndirected(g) ==
  {c \in DistinctSeqs :
     \A i \in 1..Len(c) :
       \/ HasEdge(g, CycleEdges(c)[i][1], CycleEdges(c)[i][2])
       \/ HasEdge(g, CycleEdges(c)[i][2], CycleEdges(c)[i][1])}

\* nx.simple_cycles(G): the elementary cycles, self-loops included, each a
\* list of nodes following the edge direction.  Which cycle comes first and
\* at which node it starts depends on set iteration order, so every
\* rotation of every cycle is a possible cycles[0].
SimpleCycles(g) ==
  {c \in DistinctSeqs :
     \A i \in 1..Len(c) : HasEdge(g, CycleEdges(c)[i][1], CycleEdges(c)[i][2])}

\* nx.is_directed_acyclic_graph(G).
IsDAG(g) == SimpleCycles(g) = {}

\* The for loop of lines 303-309 from position i on: the running
\* (min_weight, min_edge), replaced only on a strictly smaller weight.
\* min_edge = <<>> stands for None.
RECURSIVE MinEdgeFrom(_, _, _, _)
MinEdgeFrom(g, ces, i, best) ==
  IF i > Len(ces) THEN best
  ELSE LET e == ces[i]
       IN IF HasEdge(g, e[1], e[2]) /\ Less(g.w[e], best.min_weight)
          THEN MinEdgeFrom(g, ces, i + 1, [min_weight |-> g.w[e], min_edge |-> e])
          ELSE MinEdgeFrom(g, ces, i + 1, best)

MinEdge(g, cyc) ==
  MinEdgeFrom(g, CycleEdges(cyc), 1, [min_weight |-> Inf, min_edge |-> <<>>]).min_edge

\* Line 307 raises TypeError on the first weight of the cycle that is no
\* number: every edge of cycles[0] is compared with min_weight, a float.
CompareRaises(g, cyc) ==
  \E e \in Range(CycleEdges(cyc)) : HasEdge(g, e[1], e[2]) /\ ~Numeric(g.w[e])

\* One iteration of the while loop on cycles[0] = cyc: remove min_edge when
\* one was selected.
ResolveIteration(g, cyc) ==
  LET me == MinEdge(g, cyc)
  IN IF me # <<>> THEN RemoveEdge(g, me[1], me[2]) ELSE g

(***************************************************************************)
(* Path enumeration                                                        *)
(***************************************************************************)
\* nx.all_simple_paths(G, source, target): depth-first over the successors
\* in insertion order; visited is the current path, children the successors
\* of its last node still to try.  A path ends at the first visit of target.
RECURSIVE Dfs(_, _, _, _)
Dfs(g, visited, children, target) ==
  IF children = <<>> THEN <<>>
  ELSE LET c == Head(children)
           rest == Dfs(g, visited, Tail(children), target)
       IN IF c \in Range(visited) THEN rest
          ELSE IF c = target THEN <<Append(visited, c)>> \o rest
          ELSE Dfs(g, Append(visited, c), g.adj[c], target) \o rest

\* An enumeration that finds nothing on a graph with a cycle.
AllSimplePathsOfDag(g, s, t) ==
  IF IsDAG(g) THEN Dfs(g, <<s>>, g.adj[s], t) ELSE <<>>

AllSimplePaths(g, s, t) == Dfs(g, <<s>>, g.adj[s], t)

\* sum(G[u][v]['weight'] for u, v in zip(path[:-1], path[1:])), from int 0.
RECURSIVE SumFrom(_, _, _, _)
SumFrom(g, path, i, acc) ==
  IF i >= Len(path) THEN acc
  ELSE SumFrom(g, path, i + 1, Add(acc, g.w[<<path[i], path[i + 1]>>]))

\* The number of edges of the path in place of their weights.
PathWeightHops(g, path) == Num(Len(path) - 1)

PathWeight(g, path) == SumFrom(g, path, 1, Num(0))

\* The paths of one pair, each with its weight (lines 320-322).
Weighted(g, ps) ==
  [i \in 1..Len(ps) |-> [path |-> ps[i], weight |-> PathWeight(g, ps[i])]]

\* Lines 317-324 for one source: for target in G.nodes(), source != target.
RECURSIVE PathsToTargets(_, _, _)
PathsToTargets(g, s, ts) ==
  IF ts = <<>> THEN <<>>
  ELSE (IF s # Head(ts) THEN Weighted(g, AllSimplePaths(g, s, Head(ts))) ELSE <<>>)
         \o PathsToTargets(g, s, Tail(ts))

\* Lines 316-324: for source in G.nodes().
RECURSIVE PathsFromSources(_, _)
PathsFromSources(g, ss) ==
  IF ss = <<>> THEN <<>>
  ELSE PathsToTargets(g, Head(ss), g.nodes) \o PathsFromSources(g, Tail(ss))

\* Lines 315-324: all_paths.
AllPaths(g) == PathsFromSources(g, g.nodes)

\* max(all_paths, key=lambda x: x[1]): the running maximum is replaced only
\* by a strictly greater key, so the first maximal item wins.
RECURSIVE MaxFrom(_, _, _)
MaxFrom(xs, i, best) ==
  IF i > Len(xs) THEN best
  ELSE MaxFrom(xs, i + 1, IF Less(best.weight, xs[i].weight) THEN xs[i] ELSE best)

RECURSIVE MaxLenFrom(_, _, _)
MaxLenFrom(xs, i, best) ==
  IF i > Len(xs) THEN best
  ELSE MaxLenFrom(xs, i + 1, IF Len(best.path) < Len(xs[i].path) THEN xs[i] ELSE best)

\* max keyed by the number of nodes instead of the weight.
MaxByLength(xs) == MaxLenFrom(xs, 2, xs[1])

\* max that lets a later item of equal key replace the running maximum.
RECURSIVE MaxLastFrom(_, _, _)
MaxLastFrom(xs, i, best) ==
  IF i > Len(xs) THEN best
  ELSE MaxLastFrom(xs, i + 1, IF Less(xs[i].weight, best.weight) THEN best ELSE xs[i])

MaxByWeightLast(xs) == MaxLastFrom(xs, 2, xs[1])

MaxByWeight(xs) == MaxFrom(xs, 2, xs[1])

(***************************************************************************)
(* Weight augmentation (lines 254-279)                                     *)
(***************************************************************************)
\* riskScore is normalised around 50.
RiskNorm == 50

\* The riskScore read as a percentage: weight * (riskScore / 100).
ScalePercent(w, r) ==
  IF w.k = "nan" THEN NaN
  ELSE IF w.k = "inf" THEN (IF r = 0 THEN NaN ELSE Inf)
  ELSE Num((w.v * r) \div 100)

\* edge['weight'] * (edge['riskScore'] / 50) for a riskScore r >= 0; exact
\* for the risk scores drawn here, whose products are multiples of 50.
Scale(w, r) ==
  IF w.k = "nan" THEN NaN
  ELSE IF w.k = "inf" THEN (IF r = 0 THEN NaN ELSE Inf)
  ELSE Num((w.v * r) \div RiskNorm)

\* The numeric riskScore of e, if it has one.
RiskOf(e) == {r.v : r \in {x \in e.riskScore : Numeric(x)}}

\* The physics edge appended for one edge (lines 261-273).
PhysicsEdge(e) ==
  [e EXCEPT !.weight = IF e.riskScore # {}
                       THEN Scale(e.weight, (CHOOSE r \in e.riskScore : TRUE).v)
                       ELSE e.weight,
            !.riskScore = {}]

\* An edge dict lacking one of the keys the handlers index.
Malformed(e) == e.absent # {}

\* The adjustment of one edge raises (lines 261-267).
AdjustRaises(e) ==
  \/ Malformed(e)
  \/ (\E r \in e.riskScore : ~Numeric(r))
  \/ (e.riskScore # {} /\ ~Numeric(e.weight))

\* Every edge that can be adjusted is, the others stay as decoded.
PhysicsEdgesPartial(es) ==
  [i \in 1..Len(es) |-> IF AdjustRaises(es[i]) THEN es[i] ELSE PhysicsEdge(es[i])]

\* Lines 256-279: edges is rebound to physics_edges only when the whole
\* loop ran; a KeyError, or the TypeError of a riskScore that is no number
\* divided by 50 or of a weight that is no number times a float, is caught
\* and edges stays as decoded.
PhysicsEdges(es) ==
  IF \E i \in 1..Len(es) : AdjustRaises(es[i]) THEN es
  ELSE [i \in 1..Len(es) |-> PhysicsEdge(es[i])]

(***************************************************************************)
(* Results                                                                 *)
(***************************************************************************)
NoResult == [kind |-> "none"]

\* Line 343.
CriticalError == [kind |-> "critical", path |-> <<>>, totalWeight |-> Num(0),
                  error |-> TRUE, usedPINN |-> FALSE]

\* Lines 326-339 without the "if all_paths" guard: max() of an empty list
\* raises and the except clause answers.
CriticalResultNoGuard(g, pinn) ==
  LET all_paths == AllPaths(g)
  IN IF all_paths # <<>>
     THEN LET best == MaxByWeight(all_paths)
          IN [kind |-> "critical", path |-> best.path, totalWeight |-> best.weight,
              error |-> FALSE, usedPINN |-> pinn]
     ELSE CriticalError

\* Line 321: sum() starts from 0 and raises TypeError on the first edge of
\* an enumerated path whose weight is no number.
PathRaises(g, path) ==
  \E i \in 1..(Len(path) - 1) : ~Numeric(g.w[<<path[i], path[i + 1]>>])

SumRaises(g) ==
  \E s \in NodeSet(g), t \in NodeSet(g) :
    /\ s # t
    /\ \E i \in 1..Len(AllSimplePaths(g, s, t)) :
         PathRaises(g, AllSimplePaths(g, s, t)[i])

\* Lines 326-339 on the graph left by the loop.
CriticalAnswer(g, pinn) ==
  LET all_paths == AllPaths(g)
  IN IF all_paths # <<>>
     THEN LET best == MaxByWeight(all_paths)
          IN [kind |-> "critical", path |-> best.path, totalWeight |-> best.weight,
              error |-> FALSE, usedPINN |-> pinn]
     ELSE [kind |-> "critical", path |-> <<>>, totalWeight |-> Num(0),
           error |-> FALSE, usedPINN |-> FALSE]

\* Lines 314-339 with the TypeError of sum() left uncaught by line 340.
CriticalResultUncaught(g, pinn) == CriticalAnswer(g, pinn)

\* Lines 314-343: the path search inside the try block.
CriticalResult(g, pinn) ==
  IF SumRaises(g) THEN CriticalError ELSE CriticalAnswer(g, pinn)

(***************************************************************************)
(* Cascade impact (lines 371-430)                                          *)
(***************************************************************************)
\* nx.descendants(G, source): breadth-first from source; source itself is
\* marked visited at the start and is not part of the answer.
RECURSIVE Bfs(_, _, _)
Bfs(g, seen, frontier) ==
  IF frontier = {} THEN seen
  ELSE LET next == {v \in NodeSet(g) : \E u \in frontier : HasEdge(g, u, v)} \ seen
       IN Bfs(g, seen \cup next, next)

\* descendants that keeps the source when a cycle leads back to it.
DescendantsWithSource(g, s) == Bfs(g, {}, {s})

Descendants(g, s) == Bfs(g, {s}, {s}) \ {s}

\* The delays added up instead of maximised.
PySum(a, b) == Add(a, b)

\* The new value always replaces the running one.
PyTakeNew(a, b) == b

\* Python max(a, b): b only when it is strictly greater.
PyMax(a, b) == IF Less(a, b) THEN b ELSE a

\* max(path_weights) over the paths of one target.
RECURSIVE MaxWeightFrom(_, _, _, _)
MaxWeightFrom(g, ps, i, best) ==
  IF i > Len(ps) THEN best
  ELSE MaxWeightFrom(g, ps, i + 1, PyMax(best, PathWeight(g, ps[i])))

\* Lines 376-388: the running total_delay over the targets still to visit.
RECURSIVE TotalDelay(_, _, _, _)
TotalDelay(g, s, targets, total_delay) ==
  IF targets = {} THEN total_delay
  ELSE LET target == CHOOSE t \in targets : TRUE
           paths == AllSimplePaths(g, s, target)
       IN TotalDelay(g, s, targets \ {target},
                     IF paths # <<>>
                     THEN PyMax(total_delay,
                                MaxWeightFrom(g, paths, 2, PathWeight(g, paths[1])))
                     ELSE total_delay)

\* Adding the depth factor to total_delay instead of multiplying by it.
EnhancedAdditive(total_delay, n) ==
  IF total_delay.k = "num" THEN Num(total_delay.v * 10 + n) ELSE total_delay

\* total_delay * 1.0 * 1.0 * (1.0 + 0.1 * n), kept in tenths.
Enhanced(total_delay, n) ==
  IF total_delay.k = "num" THEN Num(total_delay.v * (10 + n)) ELSE total_delay

\* Line 430.
CascadeError == [kind |-> "cascade", affected_items |-> {}, total_delay |-> Num(0),
                 error |-> TRUE, usedPINN |-> FALSE,
                 physics_enhanced_delay |-> {}]

\* Lines 371-430 with descendants of an absent source read as empty.
CascadeResultNoRaise(g, s, pinn) ==
  LET affected_items == Descendants(g, s)
      total_delay == TotalDelay(g, s, affected_items, Num(0))
  IN [kind |-> "cascade", affected_items |-> affected_items,
      total_delay |-> total_delay, error |-> FALSE, usedPINN |-> pinn,
      physics_enhanced_delay |->
        IF pinn THEN {Enhanced(total_delay, Cardinality(affected_items))}
        ELSE {}]

\* Lines 371-430: nx.descendants raises NetworkXError for a source that is
\* not a node of G; the except clause turns it into the error result.
CascadeResult(g, s, pinn) ==
  IF s \notin NodeSet(g) THEN CascadeError
  ELSE LET affected_items == Descendants(g, s)
           total_delay == TotalDelay(g, s, affected_items, Num(0))
       IN [kind |-> "cascade", affected_items |-> affected_items,
           total_delay |-> total_delay, error |-> FALSE, usedPINN |-> pinn,
           physics_enhanced_delay |->
             IF pinn THEN {Enhanced(total_delay, Cardinality(affected_items))}
             ELSE {}]

(***************************************************************************)
(* Argument decoding                                                       *)
(***************************************************************************)
\* Each command-line argument is a JSON text: "ok" decodes to a value of the
\* expected shape, "undecodable" makes json.loads raise, "wrongtype" decodes
\* to a value of another type (a number where a list or a dict is expected).
ArgTags == {"ok", "undecodable", "wrongtype"}

\* args[i-1] is present and is used without raising.
ArgOk(av, i) == Len(av) >= i /\ av[i] = "ok"

\* Lines 245-290: json.loads(args[0]), json.loads(args[1]), the optional
\* options and the two graph-building loops all run outside the try block.
CriticalRaises(av, es) ==
  \/ ~ArgOk(av, 1)
  \/ ~ArgOk(av, 2)
  \/ (Len(av) > 2 /\ av[3] # "ok")
  \/ \E i \in 1..Len(es) : Malformed(es[i])

\* Lines 349-368, likewise outside the try block.  Any decodable
\* work_item_id passes here: an id of another type is simply no node.
CascadeRaises(av, es) ==
  \/ Len(av) < 1
  \/ av[1] = "undecodable"
  \/ ~ArgOk(av, 2)
  \/ ~ArgOk(av, 3)
  \/ (Len(av) > 3 /\ av[4] # "ok")
  \/ \E i \in 1..Len(es) : Malformed(es[i])

(***************************************************************************)
(* State machine                                                           *)
(***************************************************************************)
Init ==
  /\ pc = "idle"
  /\ cmd = "none"
  /\ argv = <<>>
  /\ nodes = <<>>
  /\ edges = <<>>
  /\ src = "none"
  /\ use_pinn = FALSE
  /\ PINN_AVAILABLE = FALSE
  /\ G = EmptyGraph
  /\ iters = 0
  /\ result = NoResult
  /\ stdout = 0
  /\ opt_out_users = {}
  /\ work_items = <<>>
  /\ dependencies = <<>>
  /\ processed = NoResult

\* The enhancement applied whenever it is asked for.
AppliesWhenAsked(up, avail) == up

\* Lines 255 and 396: "if use_pinn and PINN_AVAILABLE".
Applies(up, avail) == up /\ avail

\* The graph built from the decoded edges whatever was requested.
BuiltGraphRaw(ns, es, pinn) == BuildGraph(ns, es)

\* The graph built from adjusted weights whether or not that was requested.
BuiltGraphAlways(ns, es, pinn) == BuildGraph(ns, PhysicsEdges(es))

\* Lines 254-290: the graph a critical path request builds from its decoded
\* arguments; pinn is use_pinn and PINN_AVAILABLE.
BuiltGraph(ns, es, pinn) == BuildGraph(ns, IF pinn THEN PhysicsEdges(es) ELSE es)

\* main dispatching to find_critical_path(args) (lines 511-512, 245-295):
\* decode, augment, build the graph and reach the head of the while loop.
\* up is options.get('usePINN', False), avail the module's PINN_AVAILABLE.
FindCriticalPath(av, ns, es, up, avail) ==
  /\ pc = "idle"
  /\ cmd' = "find_critical_path"
  /\ argv' = av
  /\ PINN_AVAILABLE' = avail
  /\ src' = "none"
  /\ iters' = 0
  /\ result' = NoResult
  /\ stdout' = 0
  /\ IF CriticalRaises(av, es)
     THEN /\ pc' = "raised"
          /\ nodes' = IF ArgOk(av, 1) THEN ns ELSE <<>>
          /\ edges' = IF ArgOk(av, 1) /\ ArgOk(av, 2) THEN es ELSE <<>>
          /\ use_pinn' = FALSE
          /\ G' = EmptyGraph
     ELSE /\ pc' = "resolve"
          /\ nodes' = ns
          /\ edges' = es
          /\ use_pinn' = (Len(av) > 2 /\ up)
          /\ G' = BuiltGraph(ns, es, Applies(Len(av) > 2 /\ up, avail))
  /\ UNCHANGED gvars

\* One iteration of the while loop (lines 297-312) on a graph that is not
\* a DAG; with no cycle listed the loop breaks and the paths are searched.
ResolveStep ==
  /\ pc = "resolve"
  /\ ~IsDAG(G)
  /\ IF SimpleCycles(G) = {}
     THEN /\ pc' = "exited"
          /\ result' = CriticalResult(G, Applies(use_pinn, PINN_AVAILABLE))
          /\ stdout' = stdout + 1
          /\ UNCHANGED <<G, iters>>
     ELSE \E cyc \in SimpleCycles(G) :
            IF CompareRaises(G, cyc)
            THEN /\ pc' = "exited"
                 /\ result' = CriticalError
                 /\ stdout' = stdout + 1
                 /\ UNCHANGED <<G, iters>>
            ELSE /\ G' = ResolveIteration(G, cyc)
                 /\ iters' = IF iters < IterCap THEN iters + 1 ELSE iters
                 /\ UNCHANGED <<pc, result, stdout>>
  /\ UNCHANGED <<cmd, argv, nodes, edges, src, use_pinn, PINN_AVAILABLE>>
  /\ UNCHANGED gvars

\* The paths searched on the graph as built, without the while loop.
CriticalPathsUnresolved ==
  /\ pc = "resolve"
  /\ pc' = "exited"
  /\ result' = CriticalResult(G, Applies(use_pinn, PINN_AVAILABLE))
  /\ stdout' = stdout + 1
  /\ UNCHANGED <<cmd, argv, nodes, edges, src, use_pinn, PINN_AVAILABLE, G, iters>>
  /\ UNCHANGED gvars

\* The loop is left (or never entered) on a DAG: lines 314-339, then main
\* prints the result (line 513).
CriticalPaths ==
  /\ pc = "resolve"
  /\ IsDAG(G)
  /\ pc' = "exited"
  /\ result' = CriticalResult(G, Applies(use_pinn, PINN_AVAILABLE))
  /\ stdout' = stdout + 1
  /\ UNCHANGED <<cmd, argv, nodes, edges, src, use_pinn, PINN_AVAILABLE, G, iters>>
  /\ UNCHANGED gvars

\* main dispatching to calculate_cascade_impact(args) (lines 349-430), then
\* printing the result.
CalculateCascadeImpact(av, s, ns, es, up, avail) ==
  /\ pc = "idle"
  /\ cmd' = "calculate_cascade_impact"
  /\ argv' = av
  /\ PINN_AVAILABLE' = avail
  /\ iters' = 0
  /\ IF CascadeRaises(av, es)
     THEN /\ pc' = "raised"
          /\ src' = IF ArgOk(av, 1) THEN s
                    ELSE IF Len(av) >= 1 /\ av[1] = "wrongtype" THEN "other" ELSE "none"
          /\ nodes' = IF ArgOk(av, 1) /\ ArgOk(av, 2) THEN ns ELSE <<>>
          /\ edges' = IF ArgOk(av, 1) /\ ArgOk(av, 2) /\ ArgOk(av, 3) THEN es ELSE <<>>
          /\ use_pinn' = FALSE
          /\ G' = EmptyGraph
          /\ result' = NoResult
          /\ stdout' = 0
     ELSE /\ pc' = "exited"
          /\ src' = IF av[1] = "ok" THEN s ELSE "other"
          /\ nodes' = ns
          /\ edges' = es
          /\ use_pinn' = (Len(av) > 3 /\ up)
          /\ G' = BuildGraph(ns, es)
          /\ result' = CascadeResult(BuildGraph(ns, es),
                                     IF av[1] = "ok" THEN s ELSE "other",
                                     Applies(Len(av) > 3 /\ up, avail))
          /\ stdout' = 1
  /\ UNCHANGED gvars

\* A next invocation that still sees the graph and the result of the last.
RestartKeepingGraph ==
  /\ pc \in {"exited", "raised"}
  /\ pc' = "idle"
  /\ cmd' = "none"
  /\ argv' = <<>>
  /\ nodes' = <<>>
  /\ edges' = <<>>
  /\ src' = "none"
  /\ use_pinn' = FALSE
  /\ PINN_AVAILABLE' = FALSE
  /\ iters' = 0
  /\ stdout' = 0
  /\ UNCHANGED <<G, result>>
  /\ UNCHANGED gvars

\* The process has ended; the next invocation starts from nothing.
Restart ==
  /\ pc \in {"exited", "raised"}
  /\ pc' = "idle"
  /\ cmd' = "none"
  /\ argv' = <<>>
  /\ nodes' = <<>>
  /\ edges' = <<>>
  /\ src' = "none"
  /\ use_pinn' = FALSE
  /\ PINN_AVAILABLE' = FALSE
  /\ G' = EmptyGraph
  /\ iters' = 0
  /\ result' = NoResult
  /\ stdout' = 0
  /\ UNCHANGED gvars

(***************************************************************************)
(* Critical path requests with well-formed arguments and no options        *)
(***************************************************************************)
CriticalRequest ==
  /\ pc = "idle"
  /\ \E ns \in SeqsUpTo(NodeIds, MaxInput) :
       \E es \in SeqsUpTo(EdgeInputs, MaxInput - Len(ns)) :
         FindCriticalPath(<<"ok", "ok">>, ns, es, FALSE, FALSE)

Next == CriticalRequest \/ ResolveStep \/ CriticalPaths \/ Restart

Spec == Init /\ [][Next]_vars

(***************************************************************************)
(* Cascade impact requests with well-formed arguments and no options       *)
(***************************************************************************)
CascadeRequest ==
  /\ pc = "idle"
  /\ \E s \in NodeIds :
       \E ns \in SeqsUpTo(NodeIds, MaxInput) :
         \E es \in SeqsUpTo(EdgeInputs, MaxInput - Len(ns)) :
           CalculateCascadeImpact(<<"ok", "ok", "ok">>, s, ns, es, FALSE, FALSE)

NextCascade == CascadeRequest \/ Restart

SpecCascade == Init /\ [][NextCascade]_vars

(***************************************************************************)
(* Both graph handlers with well-formed arguments and no options           *)
(***************************************************************************)
NextGraph ==
  \/ CriticalRequest
  \/ ResolveStep
  \/ CriticalPaths
  \/ CascadeRequest
  \/ Restart

SpecGraph == Init /\ [][NextGraph]_vars

(***************************************************************************)
(* Both graph handlers with and without the options argument, on edges     *)
(* that may carry a riskScore                                              *)
(***************************************************************************)
\* An edge dict with a riskScore.
RiskEdge(u, v, w, r) ==
  [source |-> u, target |-> v, weight |-> w, riskScore |-> {Num(r)}, absent |-> {}]

\* Risk scores on the 0-100 scale whose factor riskScore / 50 is 0 or 2.
RiskScores == {0, 100}

\* Edges between A and B, and a self-loop, of weight 1 or 2.
AugPairs == {<<"A", "B">>, <<"B", "A">>, <<"A", "A">>}

AugWeights == {Num(1), Num(2)}

AugEdges ==
  {EdgeOf(p[1], p[2], w) : p \in AugPairs, w \in AugWeights}
    \cup {RiskEdge(p[1], p[2], w, r) : p \in AugPairs, w \in AugWeights,
                                       r \in RiskScores}

\* The trailing options argument: none, {"usePINN": false}, {"usePINN": true}.
OptionChoices == {<<FALSE, FALSE>>, <<TRUE, FALSE>>, <<TRUE, TRUE>>}

AugCriticalRequest ==
  /\ pc = "idle"
  /\ \E o \in OptionChoices, avail \in BOOLEAN :
       \E es \in SeqsUpTo(AugEdges, MaxInput) :
         FindCriticalPath(IF o[1] THEN <<"ok", "ok", "ok">> ELSE <<"ok", "ok">>,
                          <<>>, es, o[2], avail)

AugCascadeRequest ==
  /\ pc = "idle"
  /\ \E o \in OptionChoices, avail \in BOOLEAN :
       \E es \in SeqsUpTo(AugEdges, MaxInput) :
         CalculateCascadeImpact(IF o[1] THEN <<"ok", "ok", "ok", "ok">>
                                ELSE <<"ok", "ok", "ok">>,
                                "A", <<>>, es, o[2], avail)

NextAug ==
  \/ AugCriticalRequest
  \/ ResolveStep
  \/ CriticalPaths
  \/ AugCascadeRequest
  \/ Restart

SpecAug == Init /\ [][NextAug]_vars

(***************************************************************************)
(* Augmented critical path requests over positive, negative and infinite   *)
(* weights and risk scores below, at and above the norm                    *)
(***************************************************************************)
RiskPairs == {<<"A", "B">>, <<"B", "A">>}

RiskWeights == {Num(2), Num(-2), Inf}

\* 0, half the norm, the norm.
LowRiskScores == {0, 25, 50}

RiskEdges ==
  {EdgeOf(p[1], p[2], w) : p \in RiskPairs, w \in RiskWeights}
    \cup {RiskEdge(p[1], p[2], w, r) : p \in RiskPairs, w \in RiskWeights,
                                       r \in LowRiskScores}

RiskCriticalRequest ==
  /\ pc = "idle"
  /\ \E es \in SeqsUpTo(RiskEdges, MaxInput) :
       FindCriticalPath(<<"ok", "ok", "ok">>, <<>>, es, TRUE, TRUE)

NextRisk == RiskCriticalRequest \/ ResolveStep \/ CriticalPaths \/ Restart

SpecRisk == Init /\ [][NextRisk]_vars

(***************************************************************************)
(* Critical path requests whose riskScore may be no number                 *)
(***************************************************************************)
\* An edge dict whose riskScore is a string, null, a list or an object.
BadRiskEdge(u, v, w) ==
  [source |-> u, target |-> v, weight |-> w, riskScore |-> {NotANumber},
   absent |-> {}]

\* Edges of a 2-cycle with weight 1 or 2: without riskScore, with riskScore
\* 100, and with a riskScore that is no number.
FallbackEdges ==
  {EdgeOf(p[1], p[2], w) : p \in RiskPairs, w \in AugWeights}
    \cup {RiskEdge(p[1], p[2], w, 100) : p \in RiskPairs, w \in AugWeights}
    \cup {BadRiskEdge(p[1], p[2], w) : p \in RiskPairs, w \in AugWeights}

FallbackCriticalRequest ==
  /\ pc = "idle"
  /\ \E o \in OptionChoices, avail \in BOOLEAN :
       \E es \in SeqsUpTo(FallbackEdges, MaxInput) :
         FindCriticalPath(IF o[1] THEN <<"ok", "ok", "ok">> ELSE <<"ok", "ok">>,
                          <<>>, es, o[2], avail)

NextFallback == FallbackCriticalRequest \/ ResolveStep \/ CriticalPaths \/ Restart

SpecFallback == Init /\ [][NextFallback]_vars

(***************************************************************************)
(* Critical path requests whose weights may be no numbers                  *)
(***************************************************************************)
\* A self-loop, a 2-cycle and a chain, each edge with a number or with a
\* weight that is none.
MixedPairs == {<<"A", "A">>, <<"A", "B">>, <<"B", "A">>, <<"B", "C">>}

MixedWeights == {Num(1), Num(2), NotANumber}

MixedEdges == {EdgeOf(p[1], p[2], w) : p \in MixedPairs, w \in MixedWeights}

MixedCriticalRequest ==
  /\ pc = "idle"
  /\ \E es \in SeqsUpTo(MixedEdges, MaxInput) :
       FindCriticalPath(<<"ok", "ok">>, <<>>, es, FALSE, FALSE)

NextMixed == MixedCriticalRequest \/ ResolveStep \/ CriticalPaths \/ Restart

SpecMixed == Init /\ [][NextMixed]_vars

(***************************************************************************)
(* The command-line entry point with arbitrary argument lists              *)
(***************************************************************************)
\* Handlers that decode args[0] outside any try block (lines 110, 187).
UnguardedCommands == {"predict_risk", "analyze_dependency"}

\* Handlers whose whole body is guarded or that return early (lines 158-181,
\* 436-452, 458-489).
GuardedCommands == {"train_pinn_model", "quantize_model", "anonymize_data"}

\* What main prints for a missing or unknown command (lines 494, 515).
MainError == [kind |-> "main_error"]

\* The dict one of the other handlers returns.
OtherResult == [kind |-> "other"]

\* An edge dict without the key k.
EdgeLacking(k) ==
  [source |-> "A", target |-> "B", weight |-> Num(1), riskScore |-> {},
   absent |-> {k}]

\* Edge lists of the argument-handling runs: a 2-cycle, an infinite
\* self-loop, and dicts lacking a key.
MainEdges ==
  {EdgeOf("A", "B", Num(1)), EdgeOf("B", "A", Num(-1)), EdgeOf("A", "A", Inf)}
    \cup {EdgeLacking(k) : k \in {"source", "target", "weight"}}

\* Lines 493-495: no command on the command line.
MainNoCommand ==
  /\ pc = "idle"
  /\ pc' = "exited"
  /\ result' = MainError
  /\ stdout' = 1
  /\ \E avail \in BOOLEAN : PINN_AVAILABLE' = avail
  /\ UNCHANGED <<cmd, argv, nodes, edges, src, use_pinn, G, iters>>
  /\ UNCHANGED gvars

\* Lines 511, 514-515: a command that is not in command_map.
MainUnknownCommand ==
  /\ pc = "idle"
  /\ \E av \in SeqsUpTo(ArgTags, 1), avail \in BOOLEAN :
       /\ argv' = av
       /\ PINN_AVAILABLE' = avail
  /\ cmd' = "unknown"
  /\ pc' = "exited"
  /\ result' = MainError
  /\ stdout' = 1
  /\ UNCHANGED <<nodes, edges, src, use_pinn, G, iters>>
  /\ UNCHANGED gvars

\* Lines 511-513 for the five other handlers: the unguarded ones raise on
\* a missing, undecodable or wrongly typed args[0]; otherwise the handler
\* returns a dict and main prints it.
MainOtherCommand ==
  /\ pc = "idle"
  /\ \E c \in UnguardedCommands \cup GuardedCommands,
        av \in SeqsUpTo(ArgTags, 1), avail \in BOOLEAN :
       /\ cmd' = c
       /\ argv' = av
       /\ PINN_AVAILABLE' = avail
       /\ IF c \in UnguardedCommands /\ ~ArgOk(av, 1)
          THEN /\ pc' = "raised"
               /\ result' = NoResult
               /\ stdout' = 0
          ELSE /\ pc' = "exited"
               /\ result' = OtherResult
               /\ stdout' = 1
  /\ UNCHANGED <<nodes, edges, src, use_pinn, G, iters>>
  /\ UNCHANGED gvars

MainCriticalPath ==
  /\ pc = "idle"
  /\ \E av \in SeqsUpTo(ArgTags, 3), ns \in SeqsUpTo({"C"}, 1),
        es \in SeqsUpTo(MainEdges, MaxInput), up \in BOOLEAN, avail \in BOOLEAN :
       FindCriticalPath(av, ns, es, up, avail)

MainCascadeImpact ==
  /\ pc = "idle"
  /\ \E av \in SeqsUpTo(ArgTags, 4), s \in {"A", "C"}, ns \in SeqsUpTo({"C"}, 1),
        es \in SeqsUpTo(MainEdges, MaxInput), up \in BOOLEAN, avail \in BOOLEAN :
       CalculateCascadeImpact(av, s, ns, es, up, avail)

NextMain ==
  \/ MainNoCommand
  \/ MainUnknownCommand
  \/ MainOtherCommand
  \/ MainCriticalPath
  \/ MainCascadeImpact
  \/ ResolveStep
  \/ CriticalPaths
  \/ Restart

SpecMain == Init /\ [][NextMain]_vars

(***************************************************************************)
(* GDPRCompliantProcessor (data_processor.py, lines 18-124): one processor *)
(* object, the opt-outs registered with it, and a caller that hands its    *)
(* work items and dependencies to process_dataset                          *)
(***************************************************************************)
\* A caller's list has at most MaxItems work items and MaxDeps dependencies.
MaxItems == 2

MaxDeps == 1

Users == {"u1", "u2"}

ItemIds == {1, 2}

\* A work item dict; assignedTo is the empty set when the key is absent.
WorkItems == [id : ItemIds, assignedTo : {{}} \cup {{u} : u \in Users}]

Dependencies == [sourceId : ItemIds, targetId : ItemIds]

\* anonymize_value: the SHA3-256 digest of value + salt, a string that is
\* no user id and differs from user to user.
AnonymizeValue(value) == IF value = "u1" THEN "digest1" ELSE "digest2"

\* anonymize_work_item: a copy of the dict with the field replaced; the
\* dict passed in is left as it is.
AnonymizeWorkItem(work_item) ==
  [work_item EXCEPT !.assignedTo = {AnonymizeValue(v) : v \in @}]

\* A filter that lets every work item through.
RemoveNothing(items, opted) == items

\* remove_opt_out_data.
RemoveOptOutData(items, opted) ==
  SelectSeq(items, LAMBDA item : item.assignedTo \cap opted = {})

\* process_dataset: (anonymized_work_items, filtered_dependencies).
ProcessDatasetResult(items, deps, opted) ==
  LET filtered_work_items == RemoveOptOutData(items, opted)
      anonymized_work_items ==
        [i \in 1..Len(filtered_work_items) |->
           AnonymizeWorkItem(filtered_work_items[i])]
      valid_ids == {anonymized_work_items[i].id : i \in 1..Len(anonymized_work_items)}
  IN [kind |-> "dataset",
      items |-> anonymized_work_items,
      deps |-> SelectSeq(deps, LAMBDA dep : dep.sourceId \in valid_ids
                                            /\ dep.targetId \in valid_ids)]

\* register_opt_out(user_id).
RegisterOptOut ==
  /\ \E user_id \in Users : opt_out_users' = opt_out_users \cup {user_id}
  /\ UNCHANGED <<work_items, dependencies, processed>>
  /\ UNCHANGED hvars

\* The caller puts together the lists of its next call.
LoadDataset ==
  /\ work_items = <<>> /\ dependencies = <<>> /\ processed = NoResult
  /\ \E items \in SeqsUpTo(WorkItems, MaxItems), deps \in SeqsUpTo(Dependencies, MaxDeps) :
       /\ work_items' = items
       /\ dependencies' = deps
  /\ processed' = NoResult
  /\ UNCHANGED opt_out_users
  /\ UNCHANGED hvars

\* process_dataset(work_items, dependencies): the lists and their dicts are
\* only read.
ProcessDataset ==
  /\ processed = NoResult
  /\ processed' = ProcessDatasetResult(work_items, dependencies, opt_out_users)
  /\ UNCHANGED <<opt_out_users, work_items, dependencies>>
  /\ UNCHANGED hvars

\* The caller is done with the lists and with what was returned for them.
DiscardDataset ==
  /\ processed # NoResult
  /\ work_items' = <<>>
  /\ dependencies' = <<>>
  /\ processed' = NoResult
  /\ UNCHANGED opt_out_users
  /\ UNCHANGED hvars

NextGdpr == RegisterOptOut \/ LoadDataset \/ ProcessDataset \/ DiscardDataset

SpecGdpr == Init /\ [][NextGdpr]_vars

(***************************************************************************)
(* Notions the properties are stated with                                  *)
(***************************************************************************)
Critical == cmd = "find_critical_path"

Cascade == cmd = "calculate_cascade_impact"

\* The graph the current critical path request built before the loop.
Built == BuiltGraph(nodes, edges, use_pinn /\ PINN_AVAILABLE)

Successors(g, S) == {v \in NodeIds : \E u \in S : HasEdge(g, u, v)}

RECURSIVE ReachIn(_, _, _)
ReachIn(g, S, k) ==
  IF k = 0 THEN S ELSE ReachIn(g, S \cup Successors(g, S), k - 1)

\* The nodes reached from n by a directed path of one or more edges.
ReachPlus(g, n) == ReachIn(g, Successors(g, {n}), Cardinality(NodeIds))

\* g has a directed cycle (a self-loop is one).
HasCycle(g) == \E n \in NodeIds : n \in ReachPlus(g, n)

\* Every simple path of g between two distinct nodes.
SimplePathSet(g) ==
  {p \in DistinctSeqs :
     /\ Len(p) >= 2
     /\ \A i \in 1..(Len(p) - 1) : HasEdge(g, p[i], p[i + 1])}

\* Line 339: the empty answer.
EmptyCritical == [kind |-> "critical", path |-> <<>>, totalWeight |-> Num(0),
                  error |-> FALSE, usedPINN |-> FALSE]

C4_LoopTerminates ==
  Critical => iters <= Cardinality(EdgeSet(Built))

\* C5: when the loop has exited and the paths were enumerated, the graph has
\* no directed cycle and no self-loop.
C5_ExitAcyclic ==
  (pc = "exited" /\ Critical) => ~HasCycle(G)

\* The loop removed an edge, exited, and left an edge behind.
C5_Witness ==
  /\ pc = "exited"
  /\ Critical
  /\ iters >= 1
  /\ EdgeSet(G) # {}

\* C6: when the built graph has no cycle, the loop body never runs and the
\* graph used for path enumeration is the built graph: same nodes, same
\* edges, same weights.
C6_AcyclicInvariance ==
  (Critical /\ pc \in {"resolve", "exited"} /\ ~HasCycle(Built)) =>
    /\ G = Built
    /\ iters = 0

\* An acyclic two-edge graph went through to the result.
C6_Witness ==
  /\ pc = "exited"
  /\ Critical
  /\ ~HasCycle(Built)
  /\ Cardinality(EdgeSet(G)) = 2

\* C8: with no edge left after cycle resolution, or a single node, the
\* result is path = [], totalWeight = 0 and no error field; and a pair of
\* nodes with no connecting path never makes the result an error.
C8_EmptyAnswer ==
  (pc = "exited" /\ Critical) =>
    /\ (EdgeSet(G) = {} \/ Cardinality(NodeSet(G)) = 1) => result = EmptyCritical
    /\ (\E u, v \in NodeSet(G) : u # v /\ v \notin ReachPlus(G, u)) =>
         result.error = FALSE

\* Two nodes whose self-loops were both removed: no edge is left.
C8_Witness ==
  /\ pc = "exited"
  /\ Critical
  /\ Cardinality(NodeSet(G)) = 2
  /\ EdgeSet(G) = {}
  /\ iters = 2
  /\ result = EmptyCritical

(***************************************************************************)
(* Properties of calculate_cascade_impact                                  *)
(***************************************************************************)
\* The weights of the simple paths from the source to its descendants.
DescendantPathWeights ==
  {PathWeight(G, p) : p \in {q \in SimplePathSet(G) : q[1] = src}}

C3_AffectedAreDescendants ==
  (pc = "exited" /\ Cascade /\ ~result.error) =>
    result.affected_items = ReachPlus(G, src) \ {src}

\* The source lies on a cycle, has a descendant and is not listed itself.
C3_Witness ==
  /\ pc = "exited"
  /\ Cascade
  /\ src \in ReachPlus(G, src)
  /\ result.affected_items # {}
  /\ src \notin result.affected_items

\* C7: a source id that is no node of the graph gives the error result
\* (no affected items, zero delay, an error string), not an exception.
C7_MissingSource ==
  (Cascade /\ pc \in {"exited", "raised"} /\ src \in NodeIds /\ src \notin NodeSet(G)) =>
    /\ pc = "exited"
    /\ stdout = 1
    /\ result.error
    /\ result.affected_items = {}
    /\ result.total_delay = Num(0)

\* The source is absent from a graph that has edges.
C7_Witness ==
  /\ pc = "exited"
  /\ Cascade
  /\ src \notin NodeSet(G)
  /\ EdgeSet(G) # {}
  /\ result.error

(***************************************************************************)
(* Properties of main and of argument handling                             *)
(***************************************************************************)
\* C9: an invocation that has ended has printed exactly one result object;
\* none ends by an unhandled exception.
C9_ExactlyOneResult ==
  pc \in {"exited", "raised"} => (pc = "exited" /\ stdout = 1)

\* The request of a graph handler is malformed: a required argument is
\* missing or undecodable, the options are undecodable, or an edge lacks
\* source, target or weight.
MalformedRequest ==
  \/ Critical /\ CriticalRaises(argv, edges)
  \/ Cascade /\ CascadeRaises(argv, edges)

\* C10: a malformed request to find_critical_path or to
\* calculate_cascade_impact ends with the structured error result and never
\* with an exception.
C10_MalformedIsStructuredError ==
  (pc \in {"exited", "raised"} /\ MalformedRequest) =>
    /\ pc = "exited"
    /\ result.error

(***************************************************************************)
(* Properties of graph construction                                        *)
(***************************************************************************)
\* The edge list the graph is built from: the physics edges when a critical
\* path request asked for augmentation and the provider is there.
EffectiveEdges ==
  IF Critical /\ use_pinn /\ PINN_AVAILABLE THEN PhysicsEdges(edges) ELSE edges

\* The sources and targets of the request's edges.
Endpoints ==
  {edges[i].source : i \in 1..Len(edges)} \cup {edges[i].target : i \in 1..Len(edges)}

\* C11: once the graph is built its node set is the listed node ids united
\* with every edge source and target, for both handlers and through the
\* whole request.
C11_NodeSet ==
  pc \in {"resolve", "exited"} => NodeSet(G) = Range(nodes) \cup Endpoints

\* A listed node no edge touches, next to endpoints that are not listed.
C11_Witness ==
  /\ pc \in {"resolve", "exited"}
  /\ Range(nodes) \ Endpoints # {}
  /\ Endpoints \ Range(nodes) # {}
  /\ NodeSet(G) = Range(nodes) \cup Endpoints

\* The graph as built: G before the first loop iteration of a critical path
\* request, G of a cascade request.
JustBuilt ==
  \/ Critical /\ pc = "resolve" /\ iters = 0
  \/ Cascade /\ pc = "exited"

\* The position of the last edge of the list for the ordered pair (u, v).
LastIndex(es, u, v) ==
  CHOOSE i \in 1..Len(es) :
    /\ es[i].source = u /\ es[i].target = v
    /\ \A j \in (i + 1)..Len(es) : ~(es[j].source = u /\ es[j].target = v)

\* C12: the built graph has an edge for exactly the ordered pairs of the
\* edge list, one each, weighted as the last list entry of that ordered
\* pair; (u, v) and (v, u) are kept apart.
C12_LastEdgeWins ==
  JustBuilt =>
    /\ EdgeSet(G) = {<<EffectiveEdges[i].source, EffectiveEdges[i].target>> :
                       i \in 1..Len(EffectiveEdges)}
    /\ \A p \in EdgeSet(G) :
         G.w[p] = EffectiveEdges[LastIndex(EffectiveEdges, p[1], p[2])].weight
    /\ \A u \in NodeIds : Len(G.adj[u]) = Cardinality({p \in EdgeSet(G) : p[1] = u})

\* Two list entries for one ordered pair with different weights.
C12_Witness ==
  /\ JustBuilt
  /\ Len(edges) = 2
  /\ edges[1].source = edges[2].source
  /\ edges[1].target = edges[2].target
  /\ edges[1].weight # edges[2].weight
  /\ Cardinality(EdgeSet(G)) = 1

(***************************************************************************)
(* Properties of the augmentation option                                   *)
(***************************************************************************)
\* Augmentation was requested and the provider is there.
Augmented == use_pinn /\ PINN_AVAILABLE

\* Every edge of G carries the weight of the last entry of es for its pair.
WeightsFrom(es) ==
  \A p \in EdgeSet(G) :
    /\ \E i \in 1..Len(es) : es[i].source = p[1] /\ es[i].target = p[2]
    /\ G.w[p] = es[LastIndex(es, p[1], p[2])].weight

\* Some edge of the request changes weight under the adjustment.
SomeWeightAdjusted ==
  \E i \in 1..Len(edges) : PhysicsEdge(edges[i]).weight # edges[i].weight

RECURSIVE Resolved(_)
Resolved(g) ==
  IF IsDAG(g) THEN {g}
  ELSE UNION {IF CompareRaises(g, cyc) \/ ResolveIteration(g, cyc) = g THEN {}
              ELSE Resolved(ResolveIteration(g, cyc)) : cyc \in SimpleCycles(g)}

\* Some run of the loop entered with g raises in one of its iterations.
RECURSIVE LoopRaises(_)
LoopRaises(g) ==
  \E cyc \in SimpleCycles(g) :
    \/ CompareRaises(g, cyc)
    \/ (ResolveIteration(g, cyc) # g /\ LoopRaises(ResolveIteration(g, cyc)))

\* What find_critical_path can return once it has built g.
CriticalOutcomes(g, pinn) ==
  {CriticalResult(h, pinn) : h \in Resolved(g)}
    \cup (IF LoopRaises(g) THEN {CriticalError} ELSE {})

\* What a request with these inputs and no options argument can return.
UnaugmentedResults(c, s, ns, es) ==
  IF c = "find_critical_path"
  THEN CriticalOutcomes(BuildGraph(ns, es), FALSE)
  ELSE {CascadeResult(BuildGraph(ns, es), s, FALSE)}

\* C14: a request that does not ask for augmentation, by sending no options
\* or by sending the flag as false, builds the graph of the weights as
\* given and returns a result the same request without options returns,
\* for both handlers, whatever PINN_AVAILABLE is and whatever riskScore the
\* edges carry.
C14_AugmentationIsolation ==
  ~use_pinn =>
    /\ JustBuilt => G = BuildGraph(nodes, edges)
    /\ pc = "exited" => result \in UnaugmentedResults(cmd, src, nodes, edges)

\* Options with the flag false, the provider there, an edge whose riskScore
\* would change its weight, and a path answered.
C14_Witness ==
  /\ pc = "exited" /\ Critical
  /\ Len(argv) = 3 /\ ~use_pinn /\ PINN_AVAILABLE
  /\ SomeWeightAdjusted
  /\ result.path # <<>>
  /\ result \in UnaugmentedResults(cmd, src, nodes, edges)

\* Augmentation was requested and the provider is missing.
Fallback == use_pinn /\ ~PINN_AVAILABLE

\* C15 as stated: with augmentation requested and the provider missing the
\* answer comes from the weights as given and the result is marked, so that
\* it differs from what the request returns when it never asks.
C15_MarkedDegraded ==
  (pc = "exited" /\ Fallback) =>
    result \notin UnaugmentedResults(cmd, src, nodes, edges)

\* C15: with augmentation requested and the provider missing the graph is
\* built from the weights as given and the result is one the same request
\* returns when it never asks: no usedPINN, no physics_enhanced_delay and no
\* other mark of the fallback.
C15_SilentFallback ==
  Fallback =>
    /\ JustBuilt => G = BuildGraph(nodes, edges)
    /\ pc = "exited" =>
         /\ result \in UnaugmentedResults(cmd, src, nodes, edges)
         /\ ~result.usedPINN

\* A cascade request that asked, without provider, answered with a delay.
C15_Witness ==
  /\ pc = "exited" /\ Cascade /\ Fallback
  /\ result.affected_items # {}
  /\ result.physics_enhanced_delay = {}
  /\ SomeWeightAdjusted

(***************************************************************************)
(* Properties of the cascade enhancement                                   *)
(***************************************************************************)
\* C16: an enhanced cascade result keeps total_delay at the value the
\* request has without enhancement and adds physics_enhanced_delay equal to
\* total_delay * (1 + 0.1 * number of affected items), here in tenths; a
\* result without enhancement has no physics_enhanced_delay.
C16_BothDelaysExposed ==
  (pc = "exited" /\ Cascade) =>
    /\ result.total_delay =
         CascadeResult(BuildGraph(nodes, edges), src, FALSE).total_delay
    /\ IF Augmented /\ ~result.error
       THEN /\ result.usedPINN
            /\ result.physics_enhanced_delay =
                 {Num(result.total_delay.v * (10 + Cardinality(result.affected_items)))}
       ELSE /\ ~result.usedPINN
            /\ result.physics_enhanced_delay = {}

\* An enhanced result with one affected item and a positive delay, whose
\* enhanced value is 1.1 times the raw one.
C16_Witness ==
  /\ pc = "exited" /\ Cascade /\ Augmented
  /\ Cardinality(result.affected_items) = 1
  /\ Less(Num(0), result.total_delay)
  /\ result.physics_enhanced_delay = {Num(result.total_delay.v * 11)}

C18_QueryOnResolvedGraph ==
  pc = "exited" => G \in Resolved(BuildGraph(nodes, EffectiveEdges))

\* C18: find_critical_path builds the graph, then resolves its cycles, then
\* searches the paths of the resolved graph; calculate_cascade_impact has no
\* cycle resolution and computes its descendants and total_delay on the
\* graph as built, cycles included.
C18_StagesInOrder ==
  /\ result # NoResult => pc = "exited"
  /\ (Critical /\ pc = "resolve" /\ iters = 0) =>
       G = BuildGraph(nodes, EffectiveEdges)
  /\ (Critical /\ pc = "exited") =>
       /\ G \in Resolved(BuildGraph(nodes, EffectiveEdges))
       /\ result = CriticalResult(G, Augmented)
  /\ (Cascade /\ pc = "exited") =>
       /\ G = BuildGraph(nodes, edges)
       /\ result = CascadeResult(G, src, Augmented)

\* A cascade request answered on a graph that still has its cycle.
C18_Witness ==
  /\ Cascade /\ pc = "exited"
  /\ HasCycle(G)
  /\ result.affected_items # {}
  /\ G \notin Resolved(BuildGraph(nodes, edges))

(***************************************************************************)
(* Properties of failures inside find_critical_path                        *)
(***************************************************************************)
\* Some edge of g has a weight that is no number.
HasBadWeight(g) == \E p \in EdgeSet(g) : ~Numeric(g.w[p])

\* C19: a failure raised in the while loop or in the path search of
\* find_critical_path never leaves the handler: the request ends with the
\* result path = [], totalWeight = 0 and an error, and a result with an
\* error never has a path or a weight; without such a failure there is no
\* error.
C19_FailureIsErrorResult ==
  /\ pc # "raised"
  /\ pc = "exited" =>
       /\ result.error => (result.path = <<>> /\ result.totalWeight = Num(0))
       /\ result.error <=> HasBadWeight(G)
       /\ result.error =>
            \/ \E cyc \in SimpleCycles(G) : CompareRaises(G, cyc)
            \/ (IsDAG(G) /\ SumRaises(G))

\* An edge was removed in one iteration and a later comparison or the sum
\* over a path then failed.
C19_Witness ==
  /\ pc = "exited" /\ Critical
  /\ iters > 0
  /\ result = CriticalError
  /\ HasBadWeight(G)

(***************************************************************************)
(* Properties of one iteration of the cycle-resolution loop                *)
(***************************************************************************)
\* e is the i-th edge of cyc, no edge of cyc is lighter, and every edge of
\* cyc before it is heavier.
FirstMinimum(g, cyc, i) ==
  LET ces == CycleEdges(cyc)
  IN /\ \A j \in 1..Len(ces) : ~Less(g.w[ces[j]], g.w[ces[i]])
     /\ \A j \in 1..(i - 1) : Less(g.w[ces[i]], g.w[ces[j]])

\* C20: every iteration of the loop removes exactly one edge, the first
\* edge of minimum weight of one cycle of the graph, in that cycle's edge
\* order.
C20_OneMinEdgePerIteration ==
  [][(pc = "resolve" /\ pc' = "resolve" /\ iters' # iters) =>
       \E cyc \in SimpleCycles(G) :
         \E i \in 1..Len(cyc) :
           /\ FirstMinimum(G, cyc, i)
           /\ G' = RemoveEdge(G, CycleEdges(cyc)[i][1], CycleEdges(cyc)[i][2])
           /\ Cardinality(EdgeSet(G')) = Cardinality(EdgeSet(G)) - 1]_vars

\* C21: an iteration of the loop that found a cycle and selected no edge
\* of it leaves the loop, and the request goes on to the path search on the
\* graph as it is.
C21_DefensiveStop ==
  [][(pc = "resolve" /\ iters' # iters /\ G' = G) => pc' = "exited"]_vars

(***************************************************************************)
(* Properties of path enumeration on graphs with a cycle                   *)
(***************************************************************************)
\* C22: on a graph that has a directed cycle the enumeration of lines
\* 314-324 lists exactly the simple paths between distinct nodes, a finite
\* list, and a cascade request on such a graph ends with a result without
\* error whose affected items are the descendants and whose total_delay is
\* 0 or the greatest weight of a simple path from the source.
C22_EnumerationToleratesCycles ==
  /\ (Critical /\ pc = "resolve" /\ HasCycle(G)) =>
       {AllPaths(G)[i].path : i \in 1..Len(AllPaths(G))} = SimplePathSet(G)
  /\ (Cascade /\ pc = "exited" /\ HasCycle(G) /\ src \in NodeSet(G)) =>
       /\ ~result.error
       /\ result.affected_items = ReachPlus(G, src) \ {src}
       /\ result.total_delay \in DescendantPathWeights \cup {Num(0)}
       /\ \A w \in DescendantPathWeights : ~Less(result.total_delay, w)

\* A cascade request whose source lies on a cycle, answered with a
\* positive delay.
C22_Witness ==
  /\ Cascade /\ pc = "exited"
  /\ src \in ReachPlus(G, src)
  /\ ~result.error
  /\ Less(Num(0), result.total_delay)

(***************************************************************************)
(* Properties of the choice among paths of equal weight                    *)
(***************************************************************************)
\* The position of x in the sequence xs.
Pos(xs, x) == CHOOSE i \in 1..Len(xs) : xs[i] = x

\* The enumeration of lines 314-324 goes by source in node insertion order
\* and, for one source, by target in node insertion order.
InEnumerationOrder(g, ap) ==
  \A i, j \in 1..Len(ap) :
    i < j =>
      LET p == ap[i].path
          q == ap[j].path
      IN /\ Pos(g.nodes, p[1]) <= Pos(g.nodes, q[1])
         /\ p[1] = q[1] =>
              Pos(g.nodes, p[Len(p)]) <= Pos(g.nodes, q[Len(q)])

\* The first position of ap whose weight no other weight exceeds.
FirstMaximal(ap) ==
  CHOOSE i \in 1..Len(ap) :
    /\ \A j \in 1..Len(ap) : ~Less(ap[i].weight, ap[j].weight)
    /\ \A j \in 1..(i - 1) : Less(ap[j].weight, ap[i].weight)

\* C23: the path returned is the first one of maximum weight in the
\* enumeration order, sources and then targets in node insertion order; on
\* an acyclic input the result is therefore fixed by the node and edge
\* lists.
C23_FirstMaximalPath ==
  (pc = "exited" /\ Critical /\ ~result.error /\ result.path # <<>>) =>
    /\ InEnumerationOrder(G, AllPaths(G))
    /\ result.path = AllPaths(G)[FirstMaximal(AllPaths(G))].path
    /\ result.totalWeight = AllPaths(G)[FirstMaximal(AllPaths(G))].weight
    /\ IsDAG(BuildGraph(nodes, edges)) =>
         result = CriticalAnswer(BuildGraph(nodes, edges), FALSE)

\* Two different paths tie for the maximum and the earlier one is returned.
C23_Witness ==
  /\ pc = "exited" /\ Critical /\ result.path # <<>>
  /\ \E j \in 1..Len(AllPaths(G)) :
       /\ j > FirstMaximal(AllPaths(G))
       /\ AllPaths(G)[j].weight = result.totalWeight
       /\ AllPaths(G)[j].path # result.path
  /\ result.path = AllPaths(G)[FirstMaximal(AllPaths(G))].path

(***************************************************************************)
(* Properties of the weight adjustment                                     *)
(***************************************************************************)
\* The adjustment of edge e into f follows weight * (riskScore / 50): the
\* ends are kept, an edge without riskScore keeps its weight, a finite
\* weight v with riskScore r becomes v * r / 50, and an infinite weight
\* stays infinite except that infinity times 0 is NaN.
FollowsFormula(e, f) ==
  /\ f.source = e.source
  /\ f.target = e.target
  /\ e.riskScore = {} => f.weight = e.weight
  /\ \A r \in RiskOf(e) :
       /\ e.weight.k = "num" =>
            (f.weight.k = "num" /\ f.weight.v * RiskNorm = e.weight.v * r)
       /\ e.weight.k = "inf" => f.weight = (IF r = 0 THEN NaN ELSE Inf)
       /\ r = RiskNorm => f.weight = e.weight

\* A request whose edges are adjusted, once the graph is built.
AdjustedRequest == Critical /\ Augmented /\ pc \in {"resolve", "exited"}

OnlyEdgesRemoved(g, h) ==
  /\ h.nodes = g.nodes
  /\ EdgeSet(h) \subseteq EdgeSet(g)
  /\ \A p \in EdgeSet(h) : h.w[p] = g.w[p]
  /\ \A u \in NodeIds : Range(h.adj[u]) = {p[2] : p \in {q \in EdgeSet(h) : q[1] = u}}

\* C25: through the loop and after it the graph differs from the graph as
\* built only by removed edges; the path search changes nothing, and the
\* graph of a cascade request stays as built.
C25_OnlyResolutionRemovesEdges ==
  /\ [](pc \in {"resolve", "exited"} =>
          /\ OnlyEdgesRemoved(BuildGraph(nodes, EffectiveEdges), G)
          /\ Cascade => G = BuildGraph(nodes, edges))
  /\ [][/\ pc = "resolve" => OnlyEdgesRemoved(G, G')
        /\ (pc = "resolve" /\ pc' = "exited") => G' = G]_vars

\* The loop removed one edge of two, both nodes and the other edge with its
\* weight are still there after the path search.
C25_Witness ==
  /\ Critical /\ pc = "exited" /\ iters = 1
  /\ Cardinality(EdgeSet(BuildGraph(nodes, edges))) = 2
  /\ Cardinality(EdgeSet(G)) = 1
  /\ NodeSet(G) = NodeSet(BuildGraph(nodes, edges))
  /\ result.path # <<>>

(***************************************************************************)
(* Well-formedness of the returned path                                    *)
(***************************************************************************)
\* The weights of the consecutive edges of path, added from the last edge
\* back to the first.
RECURSIVE EdgeWeightSum(_, _)
EdgeWeightSum(g, path) ==
  IF Len(path) < 2 THEN Num(0)
  ELSE Add(EdgeWeightSum(g, SubSeq(path, 1, Len(path) - 1)),
           g.w[<<path[Len(path) - 1], path[Len(path)]>>])

\* C26: a non-empty returned path has at least two nodes, repeats no node,
\* steps along edges of the resolved graph only, and totalWeight is the sum
\* of the weights of exactly those edges.
C26_PathWellFormed ==
  (pc = "exited" /\ Critical /\ result.path # <<>>) =>
    /\ Len(result.path) >= 2
    /\ \A i, j \in 1..Len(result.path) : i # j => result.path[i] # result.path[j]
    /\ \A i \in 1..(Len(result.path) - 1) :
         HasEdge(G, result.path[i], result.path[i + 1])
    /\ result.totalWeight = EdgeWeightSum(G, result.path)
    /\ ~result.error

\* A returned path of two edges with different weights.
C26_Witness ==
  /\ pc = "exited" /\ Critical
  /\ Len(result.path) = 3
  /\ G.w[<<result.path[1], result.path[2]>>] # G.w[<<result.path[2], result.path[3]>>]
  /\ result.totalWeight = EdgeWeightSum(G, result.path)

AllAdjusted(es) == [i \in 1..Len(es) |-> PhysicsEdge(es[i])]

\* The adjustment of some edge of the request raises.
AdjustmentFails == \E i \in 1..Len(edges) : AdjustRaises(edges[i])

\* C28: the graph of an augmented critical path request is built from the
\* original edge list, whole, when the adjustment of any edge raises, and
\* from the edge list with every edge adjusted when none raises; never from
\* a mix of both.
C28_AllOrNothing ==
  (Critical /\ Augmented /\ pc = "resolve" /\ iters = 0) =>
    G = IF AdjustmentFails THEN BuildGraph(nodes, edges)
        ELSE BuildGraph(nodes, AllAdjusted(edges))

\* The first edge would double its weight, the second has a riskScore that
\* is no number: both are in the graph with their original weights.
C28_Witness ==
  /\ Critical /\ Augmented /\ pc = "resolve" /\ iters = 0
  /\ Len(edges) = 2
  /\ ~AdjustRaises(edges[1])
  /\ PhysicsEdge(edges[1]).weight # edges[1].weight
  /\ AdjustRaises(edges[2])
  /\ Cardinality(EdgeSet(G)) = 2
  /\ WeightsFrom(edges)

\* C29: a result of find_critical_path with a path carries usedPINN exactly
\* when path and totalWeight come from the adjusted weights, that is when
\* augmentation was requested, the provider is there and no adjustment
\* raised.
C29_UsedPINNIffAdjusted ==
  (pc = "exited" /\ Critical /\ ~result.error /\ result.path # <<>>) =>
    (result.usedPINN <=> (Augmented /\ ~AdjustmentFails))

(***************************************************************************)
(* Properties of GDPRCompliantProcessor                                    *)
(***************************************************************************)
\* The positions of the caller's work items that no opt-out excludes.
KeptPositions == {j \in 1..Len(work_items) : work_items[j].assignedTo \cap opt_out_users = {}}

\* C30: opt-outs are only ever added; process_dataset returns, in order,
\* the anonymized copies of exactly the work items whose assignedTo is not
\* opted out, returns only dependencies of the caller's list whose sourceId
\* and targetId are ids of returned work items, and leaves the caller's
\* lists and work items as they were.
C30_OptOutsRespected ==
  /\ [][opt_out_users \subseteq opt_out_users']_vars
  /\ [][(processed = NoResult /\ processed' # NoResult) =>
          LET items == processed'.items
              deps == processed'.deps
          IN /\ work_items' = work_items
             /\ dependencies' = dependencies
             /\ Len(items) = Cardinality(KeptPositions)
             /\ \A i \in 1..Len(items) :
                  /\ items[i].assignedTo \cap opt_out_users = {}
                  /\ \E j \in KeptPositions :
                       /\ items[i].id = work_items[j].id
                       /\ items[i].assignedTo =
                            {AnonymizeValue(v) : v \in work_items[j].assignedTo}
             /\ \A k \in 1..Len(deps) :
                  /\ deps[k] \in Range(dependencies)
                  /\ \E i \in 1..Len(items) : items[i].id = deps[k].sourceId
                  /\ \E i \in 1..Len(items) : items[i].id = deps[k].targetId]_vars

\* One work item of an opted-out user was dropped with its dependency and
\* the other work item was returned.
C30_Witness ==
  /\ processed # NoResult
  /\ Len(work_items) = 2
  /\ Len(processed.items) = 1
  /\ Len(dependencies) = 1
  /\ processed.deps = <<>>
  /\ \E j \in 1..2 : work_items[j].assignedTo \cap opt_out_users # {}
  /\ work_items[1].id # work_items[2].id

====
